---- MODULE Spec2Model ----
(***************************************************************************)
(* A model of the two tornado WebSocket services of the repository:         *)
(*   face_detection_ws.py    FaceAlignmentHandler    (/align, port 8888)    *)
(*   face_recognition_ws.py  FaceRecognitionHandler  (/embed, port 8889)    *)
(* Each service is one process: one event loop, one class-level             *)
(* ThreadPoolExecutor(max_workers=4), one handler object per connection     *)
(* with its own asyncio.Lock.  The variable `variant` says which of the two *)
(* processes a behaviour is about.                                          *)
(*                                                                          *)
(* A coroutine on_message(message) is started for every inbound frame.  A   *)
(* step of the model is what the event loop runs between two suspension     *)
(* points of a coroutine, or what one pool worker does with one task.       *)
(*                                                                          *)
(* cv2 and DeepFace are outside the repository.  They are modelled as       *)
(* functions of their input bytes (the "oracles" below): which payloads     *)
(* decode, how many faces an image holds, which faces cannot be encoded.    *)
(***************************************************************************)
EXTENDS Integers, Sequences, FiniteSets, TLC

VARIABLES
    variant,    \* "align" | "embed": which service process this is
    env,        \* the clients' scenario: who connects, what they may send
    closed,     \* closed[c]: the transport of connection c is closed
    received,   \* received[c]: the frames on_message was called with, in order
    co,         \* co[c][k]: the coroutine on_message(received[c][k])
    locked,     \* locked[c]: asyncio.Lock._locked of handler c
    waiters,    \* waiters[c]: asyncio.Lock._waiters of handler c (FIFO)
    queue,      \* the executor's work queue (FIFO)
    running,    \* the tasks the executor's worker threads are executing
    outbox      \* outbox[c]: the frames write_message put on connection c

vars == <<variant, env, closed, received, co, locked, waiters, queue, running, outbox>>

(***************************************************************************)
(* Bounds of the model.                                                     *)
(***************************************************************************)
\* the session scenario: connections, and frames received in all
SessionConns == 1
SessionMsgs == 2
\* the ordering scenario: connections, and frames received in all
OrderConns == 2
OrderMsgs == 3
\* the pool scenario: connections (more than max_workers)
PoolConns == 5
\* the wire scenario: the faces of an image, at most
WireFaces == 2

(***************************************************************************)
(* Program constants.                                                       *)
(***************************************************************************)
\* ThreadPoolExecutor(max_workers=4), a class attribute of the handler
max_workers_plus_one == 4 + 1
max_workers == 4

\* struct.calcsize('!Q'): message[:8], message[8:]
HeaderLen == 8
\* struct.calcsize('!I')
CountLen == 4

(***************************************************************************)
(* Python slices and the struct module.                                     *)
(***************************************************************************)
Min(a, b) == IF a < b THEN a ELSE b

\* s[:n]
Prefix(s, n) == SubSeq(s, 1, Min(n, Len(s)))
\* s[n:]
Suffix_from_last(s, n) == SubSeq(s, Min(n, Len(s) + 1), Len(s))
Suffix(s, n) == SubSeq(s, Min(n, Len(s)) + 1, Len(s))

RECURSIVE Pow256(_)
Pow256(n) == IF n = 0 THEN 1 ELSE 256 * Pow256(n - 1)

RECURSIVE pack_be(_, _)
\* struct.pack of an unsigned integer, network byte order, width w
pack_be(n, w) ==
    IF w = 0 THEN <<>> ELSE pack_be(n \div 256, w - 1) \o <<n % 256>>

RECURSIVE unpack_upto(_, _)
\* the unsigned integer of the first n bytes of b, network byte order
unpack_upto(b, n) ==
    IF n = 0 THEN 0 ELSE 256 * unpack_upto(b, n - 1) + b[n]

\* struct.unpack of an unsigned integer, network byte order
unpack_be(b) == unpack_upto(b, Len(b))

\* struct.pack('!Q', n) and struct.pack('!I', n)
pack_Q(n) == pack_be(n, HeaderLen)
pack_I(n) == pack_be(n, CountLen)

\* struct.unpack('!Q', b) raises struct.error unless len(b) = 8
unpack_Q_lenient(b) == Len(b) <= HeaderLen
unpack_Q_ok(b) == Len(b) = HeaderLen

\* F(v), with v evaluated once before F is applied to it
Bind(v, F(_)) == CHOOSE y \in {F(x) : x \in {v}} : TRUE

RECURSIVE Concat(_)
\* b''.join(parts)
Concat(parts) ==
    IF parts = <<>> THEN <<>> ELSE Head(parts) \o Concat(Tail(parts))

(***************************************************************************)
(* Results of a call: a value or a raised exception (str(e)).               *)
(***************************************************************************)
Ok(v) == [st |-> "ok", val |-> v, exc |-> ""]
Exc(e) == [st |-> "exc", val |-> <<>>, exc |-> e]
NoFut == [st |-> "none", val |-> <<>>, exc |-> ""]
Pending == [st |-> "pending", val |-> <<>>, exc |-> ""]

E_struct == "unpack requires a buffer of 8 bytes"
E_cv2 == "cv2.error"
E_decode == "Failed to decode image"
E_analyzer == "analyzer failure"
E_nofaces == "No faces detected"
E_noembedding == "Failed to generate embedding"
E_encode == "Failed to encode face"
E_index == "list index out of range"
E_none == "'NoneType' object is not subscriptable"
E_closed == "WebSocketClosedError"

(***************************************************************************)
(* The oracles: cv2 and DeepFace as functions of their input.               *)
(***************************************************************************)
JpegMark == 255
FailMark == 238
NoneMark == 0

\* cv2.imdecode(np.frombuffer(buf)): raises on an empty buffer, None when the
\* bytes are no image, else the image (its pixels)
imdecode(buf) ==
    IF buf = <<>> THEN Exc(E_cv2)
    ELSE IF buf[1] = JpegMark THEN Ok(<<Tail(buf)>>)
    ELSE Ok(<<>>)

\* DeepFace.extract_faces(img, enforce_detection=False): the faces of the
\* image in detection order, float pixels; may raise
extract_faces(img) ==
    IF img = <<>> THEN Ok(<<>>)
    ELSE IF img[1] = FailMark THEN Exc(E_analyzer)
    ELSE Ok([i \in 1..Len(img) |->
                [dtype |-> "float64", face |-> <<img[i], img[i] \div 2, 0>>]])

\* DeepFace.represent(img, enforce_detection=False): None, or a list of
\* {'embedding': [...]}, given here by the bit patterns of the float32 values
represent(img) ==
    IF img = <<>> THEN Ok([none |-> FALSE, list |-> <<>>])
    ELSE IF img[1] = FailMark THEN Exc(E_analyzer)
    ELSE IF img[1] = NoneMark THEN Ok([none |-> TRUE, list |-> <<>>])
    ELSE Ok([none |-> FALSE, list |-> << [i \in 1..Len(img) |-> 1000 + img[i]] >>])

\* cv2.imencode('.png', face): (success, buffer); the length of the buffer
\* depends on the image
imencode_png(face) ==
    IF face[2] = 0 THEN [success |-> FALSE, buffer |-> <<>>]
    ELSE [success |-> TRUE,
          buffer |-> <<137, 80>> \o face \o [i \in 1..(face[2] % 3) |-> 0]]

(***************************************************************************)
(* face_detection_ws.py: the blocking functions the workers run.            *)
(***************************************************************************)
SeqMin(s) == CHOOSE x \in {s[i] : i \in 1..Len(s)} : \A j \in 1..Len(s) : x <= s[j]
SeqMax(s) == CHOOSE x \in {s[i] : i \in 1..Len(s)} : \A j \in 1..Len(s) : x >= s[j]

\* cv2.normalize(face, None, 0, 255, cv2.NORM_MINMAX).astype(np.uint8)
normalize_minmax(px) ==
    Bind(<<SeqMin(px), SeqMax(px)>>,
         LAMBDA r : [i \in 1..Len(px) |->
                        IF r[2] = r[1] THEN 0
                        ELSE ((px[i] - r[1]) * 255) \div (r[2] - r[1])])

\* cv2.cvtColor(face, cv2.COLOR_RGB2BGR)
cvtColor_RGB2BGR(px) == [i \in 1..Len(px) |-> px[Len(px) + 1 - i]]

_normalize_face(face) ==
    Bind(IF face.dtype # "uint8" THEN Bind(face.face, normalize_minmax)
         ELSE face.face,
         cvtColor_RGB2BGR)

_encode_face(face) ==
    Bind(Bind(face, imencode_png),
         LAMBDA r : IF ~r.success THEN Exc(E_encode) ELSE Ok(r.buffer))

\* _decode of _decode_image
_decode(image_data) ==
    LET r == imdecode(image_data)
    IN  IF r.st = "exc" THEN r
        ELSE IF r.val = <<>> THEN Exc(E_decode)
        ELSE Ok(r.val[1])

\* _detect of _detect_faces
_detect(img) == extract_faces(img)

RECURSIVE encode_faces(_)
\* the loop of _prepare: for each face, in order, its length and its bytes;
\* the first face that cannot be encoded raises
encode_faces(face_objs) ==
    IF face_objs = <<>> THEN Ok(<<>>)
    ELSE Bind(_encode_face(_normalize_face(Head(face_objs))),
              LAMBDA e :
                  IF e.st = "exc" THEN e
                  ELSE Bind(encode_faces(Tail(face_objs)),
                            LAMBDA rest :
                                IF rest.st = "exc" THEN rest
                                ELSE Ok(pack_I(Len(e.val)) \o e.val \o rest.val)))

\* _prepare of FaceAlignmentHandler._prepare_response
_prepare_align_le(message_id, face_objs) ==
    LET parts == encode_faces(face_objs)
        n == Len(face_objs)
    IN  IF parts.st = "exc" THEN parts
        ELSE Ok(pack_Q(message_id)
                \o <<n % 256, (n \div 256) % 256, (n \div 65536) % 256, 0>>
                \o parts.val)
_prepare_align(message_id, face_objs) ==
    LET parts == encode_faces(face_objs)
    IN  IF parts.st = "exc" THEN parts
        ELSE Ok(pack_Q(message_id) \o pack_I(Len(face_objs)) \o parts.val)

(***************************************************************************)
(* face_recognition_ws.py: the blocking functions the workers run.          *)
(***************************************************************************)
\* np.array(..., dtype=np.float32).tobytes(): 4 bytes a value, native order
tobytes(vec) ==
    Concat([i \in 1..Len(vec) |->
               [j \in 1..4 |-> (vec[i] \div Pow256(j - 1)) % 256]])

\* _embed of _get_embedding: embedding[0]['embedding'] as a float32 array
_embed(img) ==
    LET r == represent(img)
    IN  IF r.st = "exc" THEN r
        ELSE IF r.val.none THEN Exc(E_none)
        ELSE IF r.val.list = <<>> THEN Exc(E_index)
        ELSE Ok(<<r.val.list[1]>>)

\* _prepare of FaceRecognitionHandler._prepare_response
_prepare_embed(message_id, embedding) ==
    LET embedding_bytes == tobytes(embedding)
    IN  Ok(pack_Q(message_id) \o pack_I(Len(embedding_bytes)) \o embedding_bytes)

(***************************************************************************)
(* The frames the clients send.  The correlation ids stay below 2^31: the   *)
(* model checker's integers are 32 bits wide.                               *)
(***************************************************************************)
ShortMsg == <<0, 0, 7>>
GarbageMsg == pack_Q(0) \o <<222, 173, 190, 239>>
EmptyPayloadMsg == pack_Q(9)
NoFaceMsg == pack_Q(2) \o <<JpegMark>>
AnalyzerFailMsg == pack_Q(3) \o <<JpegMark, FailMark>>
NoneResultMsg == pack_Q(8) \o <<JpegMark, NoneMark>>
OneFaceMsg == pack_Q(42) \o <<JpegMark, 16>>
TwoFaceMsg == pack_Q(66051) \o <<JpegMark, 120, 95>>

AllInputs ==
    {ShortMsg, GarbageMsg, EmptyPayloadMsg, NoFaceMsg, AnalyzerFailMsg,
     NoneResultMsg, OneFaceMsg, TwoFaceMsg}

(***************************************************************************)
(* Coroutines, tasks, frames.                                               *)
(***************************************************************************)
NewCo ==
    [pc |-> "start", message_id |-> -1, img |-> <<>>, result |-> <<>>,
     fut |-> NoFut, stages |-> <<>>, waited |-> FALSE]

\* a coroutine that returned: its frame is gone; what stays is the record of
\* the stages it submitted and of whether it had to wait for the lock
DoneCo(me) ==
    [NewCo EXCEPT !.pc = "done", !.stages = me.stages, !.waited = me.waited]

AnalyzeMethod == IF variant = "align" THEN "_detect_faces" ELSE "_get_embedding"
AnalyzeFn == IF variant = "align" THEN "_detect" ELSE "_embed"

AwaitingPool == {"_decode_image", "_detect_faces", "_get_embedding", "_prepare_response"}
AwaitingWrite == {"write", "error_write"}
\* between the acquisition of the lock and its release
InFlight == AwaitingPool \cup AwaitingWrite

\* on_message's except branch: "Error: {e}" (alignment),
\* "Error processing image: {e}" (recognition)
error_text(e) ==
    IF variant = "align" THEN <<"Error: ", e>>
    ELSE <<"Error processing image: ", e>>

\* write_message(response, binary=True)
BinaryFrame(k, data) == [kind |-> "binary", req |-> k, data |-> data, text |-> <<>>]
\* write_message(text)
TextFrame_binary(k, e) ==
    [kind |-> "binary", req |-> k, data |-> <<>>, text |-> error_text(e)]
TextFrame(k, e) == [kind |-> "text", req |-> k, data |-> <<>>, text |-> error_text(e)]

\* what a worker thread computes for a task
RunTask(t) ==
    CASE t.fn = "_decode" -> _decode(t.arg)
      [] t.fn = "_detect" -> _detect(t.arg)
      [] t.fn = "_embed" -> _embed(t.arg)
      [] t.fn = "_prepare" ->
            IF variant = "align" THEN _prepare_align(t.id, t.arg)
            ELSE _prepare_embed(t.id, t.arg[1])

TotalReceived == LET RECURSIVE Sum(_)
                     Sum(S) == IF S = {} THEN 0
                               ELSE LET c == CHOOSE x \in S : TRUE
                                    IN  Len(received[c]) + Sum(S \ {c})
                 IN  Sum(env.conns)

(***************************************************************************)
(* asyncio.Lock.                                                            *)
(***************************************************************************)
\* acquire's fast path: not locked and nobody waiting
LockFree_none(c) == TRUE
LockFree(c) == ~locked[c] /\ waiters[c] = <<>>

\* _wake_up_first: the first waiter's future is set
WakeFirst_last(cc, w) ==
    IF w # <<>> /\ cc[w[Len(w)]].pc = "lock_wait"
    THEN [cc EXCEPT ![w[Len(w)]].pc = "lock_woken"]
    ELSE cc
WakeFirst_none(cc, w) == cc
WakeFirst(cc, w) ==
    IF w # <<>> /\ cc[Head(w)].pc = "lock_wait"
    THEN [cc EXCEPT ![Head(w)].pc = "lock_woken"]
    ELSE cc

Remove(w, k) == SelectSeq(w, LAMBDA x : x # k)

\* the coroutine k of connection c goes on holding the lock
Hold(c, w) ==
    /\ locked' = [locked EXCEPT ![c] = TRUE]
    /\ waiters' = [waiters EXCEPT ![c] = w]

(***************************************************************************)
(* Pieces of on_message / _process_message, each run by the event loop      *)
(* without suspension.  cc is co[c] as the step found or extended it, w the *)
(* lock's waiters.                                                          *)
(***************************************************************************)
\* the end of `async with self.processing_lock`: release, return
Exit(c, k, w, cc) ==
    /\ locked' = [locked EXCEPT ![c] = FALSE]
    /\ waiters' = [waiters EXCEPT ![c] = w]
    /\ co' = [co EXCEPT ![c] = WakeFirst([cc EXCEPT ![k] = DoneCo(@)], w)]
    /\ UNCHANGED <<queue, outbox>>

\* `except Exception as e`: the error goes out as a text frame; on a closed
\* connection write_message raises and the exception leaves on_message
Except_silent(c, k, w, cc, e) == Exit(c, k, w, cc)
Except_leak(c, k, w, cc, e) ==
    IF closed[c]
    THEN /\ co' = [co EXCEPT ![c] = [cc EXCEPT ![k] = DoneCo(@)]]
         /\ Hold(c, w)
         /\ UNCHANGED <<queue, outbox>>
    ELSE /\ outbox' = [outbox EXCEPT ![c] = Append(@, TextFrame(k, e))]
         /\ co' = [co EXCEPT ![c] =
                      [cc EXCEPT ![k] = [DoneCo(@) EXCEPT !.pc = "error_write"]]]
         /\ Hold(c, w)
         /\ UNCHANGED queue
Except_unchecked(c, k, w, cc, e) ==
    /\ outbox' = [outbox EXCEPT ![c] = Append(@, TextFrame(k, e))]
    /\ co' = [co EXCEPT ![c] =
                 [cc EXCEPT ![k] = [DoneCo(@) EXCEPT !.pc = "error_write"]]]
    /\ Hold(c, w)
    /\ UNCHANGED queue
Except_with_id(c, k, w, cc, e) ==
    IF closed[c] THEN Exit(c, k, w, cc)
    ELSE /\ outbox' = [outbox EXCEPT ![c] =
                          Append(@, [TextFrame(k, e) EXCEPT
                                        !.text = <<error_text(e)[1],
                                                   ToString(cc[k].message_id), e>>])]
         /\ co' = [co EXCEPT ![c] =
                      [cc EXCEPT ![k] = [DoneCo(@) EXCEPT !.pc = "error_write"]]]
         /\ Hold(c, w)
         /\ UNCHANGED queue
Except(c, k, w, cc, e) ==
    IF closed[c] THEN Exit(c, k, w, cc)
    ELSE /\ outbox' = [outbox EXCEPT ![c] = Append(@, TextFrame(k, e))]
         /\ co' = [co EXCEPT ![c] =
                      [cc EXCEPT ![k] = [DoneCo(@) EXCEPT !.pc = "error_write"]]]
         /\ Hold(c, w)
         /\ UNCHANGED queue

\* await IOLoop.current().run_in_executor(self.executor, fn)
Submit_inline(c, k, w, cc, method, fn, arg, id, loc) ==
    /\ co' = [co EXCEPT ![c] =
                 [cc EXCEPT ![k] =
                     [loc EXCEPT !.pc = method,
                                 !.fut = RunTask([c |-> c, k |-> k, fn |-> fn,
                                                  arg |-> arg, id |-> id]),
                                 !.stages = Append(@, fn)]]]
    /\ Hold(c, w)
    /\ UNCHANGED <<queue, outbox>>
Submit(c, k, w, cc, method, fn, arg, id, loc) ==
    /\ co' = [co EXCEPT ![c] =
                 [cc EXCEPT ![k] = [loc EXCEPT !.pc = method, !.fut = Pending,
                                               !.stages = Append(@, fn)]]]
    /\ queue' = Append(queue, [c |-> c, k |-> k, fn |-> fn, arg |-> arg, id |-> id])
    /\ Hold(c, w)
    /\ UNCHANGED outbox

\* _process_message up to `await self._decode_image(message[8:])`
Enter(c, k, w, cc, message) ==
    IF ~unpack_Q_ok(Prefix(message, HeaderLen))
    THEN Except(c, k, w, cc, E_struct)
    ELSE LET message_id == unpack_be(Prefix(message, HeaderLen))
         IN  Submit(c, k, w, cc, "_decode_image", "_decode",
                    Suffix(message, HeaderLen), message_id,
                    [cc[k] EXCEPT !.message_id = message_id])

\* `if not face_objs` (alignment), `if embedding is None` (recognition)
NoResult_never(val) == FALSE
NoResult(val) == val = <<>>

\* the message of the ValueError raised when NoResult
NoResultError == IF variant = "align" THEN E_nofaces ELSE E_noembedding

\* the arguments _prepare closes over
PrepareId_shared(c, k) ==
    LET busy == {d \in DOMAIN co : \E j \in 1..Len(co[d]) : co[d][j].message_id >= 0}
        d == CHOOSE x \in busy : \A y \in busy : x <= y
        j == CHOOSE x \in 1..Len(co[d]) : co[d][x].message_id >= 0
    IN  co[d][j].message_id
PrepareId(c, k) == co[c][k].message_id

\* _process_message after an awaited future is done
Continue(c, k) ==
    LET me == co[c][k]
        w == waiters[c]
        cc == co[c]
    IN  IF me.fut.st = "exc" THEN Except(c, k, w, cc, me.fut.exc)
        ELSE IF me.pc = "_decode_image"
        THEN Submit(c, k, w, cc, AnalyzeMethod, AnalyzeFn, me.fut.val,
                    me.message_id, [me EXCEPT !.img = <<me.fut.val>>])
        ELSE IF me.pc = AnalyzeMethod
        THEN IF NoResult(me.fut.val) THEN Except(c, k, w, cc, NoResultError)
             ELSE Submit(c, k, w, cc, "_prepare_response", "_prepare",
                         me.fut.val, PrepareId(c, k),
                         [me EXCEPT !.result = me.fut.val])
        ELSE \* await self.write_message(response, binary=True)
             IF closed[c] THEN Except(c, k, w, cc, E_closed)
             ELSE /\ outbox' = [outbox EXCEPT ![c] =
                                   Append(@, BinaryFrame(k, me.fut.val))]
                  /\ co' = [co EXCEPT ![c][k] = [DoneCo(me) EXCEPT !.pc = "write"]]
                  /\ Hold(c, w)
                  /\ UNCHANGED queue

(***************************************************************************)
(* The actions.                                                             *)
(***************************************************************************)
\* a frame arrives on connection c: on_message(m) starts and runs to its
\* first suspension
on_message(c, m) ==
    /\ c \in env.conns /\ ~closed[c]
    /\ m \in env.inputs
    /\ TotalReceived < env.quota
    /\ Len(received[c]) < env.perconn[c]
    /\ c > 2 => received[c - 1] # <<>>
    /\ received' = [received EXCEPT ![c] = Append(@, m)]
    /\ LET k == Len(received[c]) + 1
           cc == Append(co[c], NewCo)
       IN  IF LockFree(c) THEN Enter(c, k, waiters[c], cc, m)
           ELSE /\ co' = [co EXCEPT ![c] =
                            [cc EXCEPT ![k].pc = "lock_wait", ![k].waited = TRUE]]
                /\ waiters' = [waiters EXCEPT ![c] = Append(@, k)]
                /\ UNCHANGED <<locked, queue, outbox>>
    /\ UNCHANGED <<variant, env, closed, running>>

\* a waiter whose future was set resumes in acquire and takes the lock
lock_acquired(c, k) ==
    /\ co[c][k].pc = "lock_woken"
    /\ Enter(c, k, Remove(waiters[c], k), co[c], received[c][k])
    /\ UNCHANGED <<variant, env, closed, received, running>>

\* a worker thread takes the next task of the queue
worker_start ==
    /\ queue # <<>>
    /\ Cardinality(running) < max_workers
    /\ running' = running \cup {Head(queue)}
    /\ queue' = Tail(queue)
    /\ UNCHANGED <<variant, env, closed, received, co, locked, waiters, outbox>>

\* a worker thread finishes its task: the awaited future is done
worker_finish_broadcast(t) ==
    /\ t \in running
    /\ running' = running \ {t}
    /\ co' = IF RunTask(t).st = "exc"
             THEN [c \in DOMAIN co |->
                      [k \in 1..Len(co[c]) |->
                          IF co[c][k].fut.st = "pending"
                          THEN [co[c][k] EXCEPT !.fut = RunTask(t)]
                          ELSE co[c][k]]]
             ELSE [co EXCEPT ![t.c][t.k].fut = RunTask(t)]
    /\ UNCHANGED <<variant, env, closed, received, locked, waiters, queue, outbox>>
worker_finish(t) ==
    /\ t \in running
    /\ running' = running \ {t}
    /\ co' = [co EXCEPT ![t.c][t.k].fut = RunTask(t)]
    /\ UNCHANGED <<variant, env, closed, received, locked, waiters, queue, outbox>>

\* the event loop resumes a coroutine whose awaited pool future is done
resume_with_timeout(c, k) ==
    /\ co[c][k].pc \in AwaitingPool
    /\ IF co[c][k].fut.st = "pending"
       THEN Except(c, k, waiters[c], co[c], "TimeoutError")
       ELSE Continue(c, k)
    /\ UNCHANGED <<variant, env, closed, received, running>>
resume(c, k) ==
    /\ co[c][k].pc \in AwaitingPool
    /\ co[c][k].fut.st \in {"ok", "exc"}
    /\ Continue(c, k)
    /\ UNCHANGED <<variant, env, closed, received, running>>

\* the awaited write_message is over (or raised, the connection being
\* closed): on_message leaves `async with` and returns
write_done(c, k) ==
    /\ co[c][k].pc \in AwaitingWrite
    /\ Exit(c, k, waiters[c], co[c])
    /\ UNCHANGED <<variant, env, closed, received, running>>

\* the client disconnects: on_close
on_close(c) ==
    /\ c \in env.closers /\ ~closed[c]
    /\ closed' = [closed EXCEPT ![c] = TRUE]
    /\ UNCHANGED <<variant, env, received, co, locked, waiters, queue, running, outbox>>

Coroutines == {<<c, k>> \in (DOMAIN co) \X (1..8) : k <= Len(co[c])}

Next ==
    \/ \E c \in env.conns : \E m \in env.inputs : on_message(c, m)
    \/ \E ck \in Coroutines : lock_acquired(ck[1], ck[2])
    \/ worker_start
    \/ \E t \in running : worker_finish(t)
    \/ \E ck \in Coroutines : resume(ck[1], ck[2])
    \/ \E ck \in Coroutines : write_done(ck[1], ck[2])
    \/ \E c \in env.conns : on_close(c)

(***************************************************************************)
(* The initial states: a service process that has just started, with the    *)
(* scenario its clients will play.                                          *)
(***************************************************************************)
\* n connections; connection 1 is a client that sends up to `first` frames
\* without waiting for the answers and may disconnect at any moment, the
\* other connections are clients that send one frame.  These being alike,
\* they are numbered in the order of their frames: connection c + 1 sends
\* after connection c, for c >= 2.
Scenario(n, inputs, quota, first) ==
    [conns |-> 1..n, inputs |-> inputs, quota |-> quota,
     perconn |-> [c \in 1..n |-> IF c = 1 THEN first ELSE 1],
     closers |-> {1}]

InitWith(scenario) ==
    /\ variant \in {"align", "embed"}
    /\ env = scenario
    /\ closed = [c \in scenario.conns |-> FALSE]
    /\ received = [c \in scenario.conns |-> <<>>]
    /\ co = [c \in scenario.conns |-> <<>>]
    /\ locked = [c \in scenario.conns |-> FALSE]
    /\ waiters = [c \in scenario.conns |-> <<>>]
    /\ queue = <<>>
    /\ running = {}
    /\ outbox = [c \in scenario.conns |-> <<>>]

\* the session scenario: any frame of AllInputs
SessionScenario == Scenario(SessionConns, AllInputs, SessionMsgs, SessionMsgs)

\* the ordering scenario: valid frames with different correlation ids on
\* several connections at once
OrderScenario ==
    Scenario(OrderConns, {OneFaceMsg, TwoFaceMsg}, OrderMsgs, OrderMsgs)

\* the pool scenario: more connections than workers (and a second frame on
\* connection 1)
PoolScenario == Scenario(PoolConns, {GarbageMsg}, PoolConns + 1, 2)

\* the progress scenario: as the ordering scenario, with a frame that fails
\* in its first stage and a frame that goes through the three stages
ProgressScenario ==
    Scenario(OrderConns, {GarbageMsg, OneFaceMsg}, OrderMsgs, OrderMsgs)

\* the wire scenario: one client, one frame sent twice, the frame being any
\* header with any payload: nothing, bytes that are no image, or an image
\* with up to WireFaces faces
WireIds == {0, 42, 66051, 16909060}
WirePixels == {2, 9, 95}
WireImages == UNION {[1..n -> WirePixels] : n \in 0..WireFaces}
WirePayloads == {<<>>, <<222, 173>>} \cup {<<JpegMark>> \o px : px \in WireImages}
WireMessages == {pack_Q(id) \o payload : id \in WireIds, payload \in WirePayloads}

InitWire == \E m \in WireMessages : InitWith(Scenario(1, {m}, 2, 2))

Init == InitWith(SessionScenario)
InitOrder == InitWith(OrderScenario)
InitPool == InitWith(PoolScenario)

Spec == Init /\ [][Next]_vars
SpecOrder == InitOrder /\ [][Next]_vars
SpecPool == InitPool /\ [][Next]_vars
SpecWire == InitWire /\ [][Next]_vars

\* the steps of the service itself: the event loop's and the workers'
ServiceStep ==
    \/ \E ck \in Coroutines : lock_acquired(ck[1], ck[2])
    \/ worker_start
    \/ \E t \in running : worker_finish(t)
    \/ \E ck \in Coroutines : resume(ck[1], ck[2])
    \/ \E ck \in Coroutines : write_done(ck[1], ck[2])

\* The service does not stop while it has something to do: the event loop
\* runs a callback that is ready, a free worker takes a task, a task (a cv2
\* or DeepFace call) returns.  Nothing obliges a client to send or to
\* disconnect.
Fairness == WF_vars(ServiceStep)

FairSpec == InitWith(ProgressScenario) /\ [][Next]_vars /\ Fairness

(***************************************************************************)
(* What the properties below speak of.                                      *)
(***************************************************************************)
Connections == DOMAIN co
Requests(c) == 1..Len(received[c])

\* the places in outbox[c] of the frames the run of request k wrote
FramesFor(c, k) == {i \in 1..Len(outbox[c]) : outbox[c][i].req = k}

Done(c, k) == co[c][k].pc = "done"
\* the tasks of request k of connection c in the pool
TasksOf(c, k) ==
    {t \in running : t.c = c /\ t.k = k}
    \cup {queue[i] : i \in {j \in 1..Len(queue) : queue[j].c = c /\ queue[j].k = k}}

\* the result of the pipeline for a frame, stage after stage with nothing
\* else going on: a response's bytes, or the exception that ends the run
Outcome(m) ==
    IF Len(m) < HeaderLen THEN Exc(E_struct)
    ELSE LET id == unpack_be(SubSeq(m, 1, HeaderLen))
             d == _decode(SubSeq(m, HeaderLen + 1, Len(m)))
         IN  IF d.st = "exc" THEN d
             ELSE LET a == IF variant = "align" THEN _detect(d.val)
                           ELSE _embed(d.val)
                  IN  IF a.st = "exc" THEN a
                      ELSE IF a.val = <<>> THEN Exc(NoResultError)
                      ELSE IF variant = "align" THEN _prepare_align(id, a.val)
                      ELSE _prepare_embed(id, a.val[1])

(***************************************************************************)
(* C1.  On every connection the responses are written in the order in      *)
(* which their requests were received: a frame written later answers a      *)
(* later request, whatever the pool's workers take and however long each    *)
(* of their tasks lasts.                                                    *)
(***************************************************************************)
C1_ResponsesInRequestOrder ==
    \A c \in Connections :
        \A i, j \in 1..Len(outbox[c]) :
            i < j => outbox[c][i].req < outbox[c][j].req

\* three requests of one connection, the later ones having waited for the
\* lock, all answered
C1_Witness ==
    \E c \in Connections :
        /\ Len(outbox[c]) = 3
        /\ co[c][2].waited /\ co[c][3].waited
        /\ \A i \in 1..3 : outbox[c][i].kind = "binary"

\* the runs of connection c between lock acquisition and release
RunsInFlight(c) == {k \in Requests(c) : co[c][k].pc \in InFlight}

(***************************************************************************)
(* C2.  A connection has at most one run between the acquisition of its     *)
(* lock and the release, however many of its frames were received; runs of  *)
(* different connections are in flight together.                            *)
(***************************************************************************)
C2_OneRunPerConnection ==
    \A c \in Connections :
        /\ Cardinality(RunsInFlight(c)) <= 1
        /\ RunsInFlight(c) # {} => locked[c]

\* connection c: two frames received, one in flight and one waiting, while
\* a run of another connection is in flight too
C2_Witness ==
    \E c, d \in Connections :
        /\ c # d
        /\ Len(received[c]) >= 2
        /\ Cardinality(RunsInFlight(c)) = 1
        /\ \E k \in Requests(c) : co[c][k].pc = "lock_wait"
        /\ RunsInFlight(d) # {}

(***************************************************************************)
(* C3.  At most 4 tasks execute in the pool at a time, over all             *)
(* connections; a task starts only from the head of the queue and only      *)
(* when fewer than 4 execute, so a task submitted while 4 execute waits.    *)
(***************************************************************************)
C3_PoolBound ==
    /\ [](Cardinality(running) <= 4)
    /\ [][\A t \in running' \ running :
              /\ Cardinality(running) < 4
              /\ queue # <<>> /\ t = Head(queue)]_vars

\* 4 tasks of 4 connections execute and a fifth connection's task waits
C3_Witness ==
    /\ Cardinality(running) = 4
    /\ Cardinality({t.c : t \in running}) = 4
    /\ queue # <<>>

(***************************************************************************)
(* C4.  On a connection that stays open every request gets exactly one      *)
(* response frame, never two and, once its run is over, never none; and no  *)
(* stage of a request is submitted before the response to the request       *)
(* before it is written.                                                    *)
(***************************************************************************)
C4_ExactlyOneResponse ==
    \A c \in Connections :
        \A k \in Requests(c) :
            /\ Cardinality(FramesFor(c, k)) <= 1
            /\ Done(c, k) /\ ~closed[c] => Cardinality(FramesFor(c, k)) = 1
            /\ (k > 1 /\ ~closed[c] /\ co[c][k].stages # <<>>)
                   => /\ Done(c, k - 1)
                      /\ FramesFor(c, k - 1) # {}

\* an open connection, two requests, the second waited for the first;
\* one was answered by a binary frame and one by a text frame
C4_Witness ==
    \E c \in Connections :
        /\ ~closed[c]
        /\ Len(received[c]) = 2 /\ Done(c, 1) /\ Done(c, 2)
        /\ co[c][2].waited
        /\ Len(outbox[c]) = 2
        /\ {outbox[c][1].kind, outbox[c][2].kind} = {"binary", "text"}

\* every frame written for a request is the one its pipeline's outcome calls
\* for, and a finished request on an open connection has its frame
C5_Answers ==
    \A c \in Connections :
        \A k \in Requests(c) :
            LET o == Outcome(received[c][k])
            IN  /\ \A i \in FramesFor(c, k) :
                      IF o.st = "exc"
                      THEN /\ outbox[c][i].kind = "text"
                           /\ outbox[c][i].text = error_text(o.exc)
                      ELSE /\ outbox[c][i].kind = "binary"
                           /\ outbox[c][i].data = o.val
                /\ Done(c, k) /\ ~closed[c] => FramesFor(c, k) # {}

(***************************************************************************)
(* C5.  A request whose pipeline fails at any point (header, decode,        *)
(* analyzer, no result, encode, anything unexpected) is answered by a text  *)
(* frame carrying the error, never by a binary frame; the handler never     *)
(* closes the connection (only the client's disconnect does); and a valid   *)
(* request is answered by its binary response whatever failed before it.    *)
(***************************************************************************)
C5_ErrorsAnsweredByText ==
    /\ []C5_Answers
    /\ [][\A c \in Connections : closed'[c] # closed[c] => on_close(c)]_vars

\* an open connection whose first request failed and was answered by a text
\* frame, and whose second, valid, request was answered by a binary frame
C5_Witness ==
    \E c \in Connections :
        /\ ~closed[c]
        /\ Len(outbox[c]) = 2
        /\ Outcome(received[c][1]).st = "exc"
        /\ outbox[c][1].kind = "text" /\ outbox[c][1].req = 1
        /\ Outcome(received[c][2]).st = "ok"
        /\ outbox[c][2].kind = "binary" /\ outbox[c][2].req = 2

(***************************************************************************)
(* C6.  With several connections working over the one pool, a binary frame  *)
(* written to a connection begins with the 8 header bytes of the request    *)
(* of that connection whose run wrote it, and is the response computed      *)
(* from that request's payload alone.                                       *)
(***************************************************************************)
C6_NoCrossTalk ==
    \A c \in Connections :
        \A i \in 1..Len(outbox[c]) :
            outbox[c][i].kind = "binary" =>
                LET m == received[c][outbox[c][i].req]
                IN  /\ SubSeq(outbox[c][i].data, 1, HeaderLen) = SubSeq(m, 1, HeaderLen)
                    /\ outbox[c][i].data = Outcome(m).val

\* a response is on connection c while another connection's run, for a
\* request with another correlation id, has its encode stage in the pool
C6_Witness ==
    \E c, d \in Connections :
        /\ c # d
        /\ outbox[c] # <<>> /\ outbox[c][1].kind = "binary"
        /\ \E t \in running :
              /\ t.c = d /\ t.fn = "_prepare"
              /\ pack_Q(t.id) # SubSeq(outbox[c][1].data, 1, HeaderLen)
        /\ \E k \in Requests(c) : co[c][k].pc \in AwaitingPool

(***************************************************************************)
(* C7.  For a frame shorter than 8 bytes the header cannot be decoded: no   *)
(* decode, analyze or encode task is ever submitted for it, and its only    *)
(* answer is the text frame of that error.                                  *)
(***************************************************************************)
C7_ShortFrameNeverOffloaded ==
    \A c \in Connections :
        \A k \in Requests(c) :
            Len(received[c][k]) < 8 =>
                /\ co[c][k].stages = <<>>
                /\ TasksOf(c, k) = {}
                /\ co[c][k].pc \in {"lock_wait", "lock_woken", "error_write", "done"}
                /\ \A i \in FramesFor(c, k) :
                      /\ outbox[c][i].kind = "text"
                      /\ outbox[c][i].text = error_text(E_struct)

\* a short frame was received and answered, and the pool never saw it
C7_Witness ==
    \E c \in Connections :
        \E k \in Requests(c) :
            /\ Len(received[c][k]) < 8
            /\ Done(c, k)
            /\ FramesFor(c, k) # {}
            /\ co[c][k].stages = <<>>

\* every frame received so far on an open connection has its response
AllAnswered ==
    \A c \in Connections :
        \A k \in Requests(c) : closed[c] \/ FramesFor(c, k) # {}

(***************************************************************************)
(* C8.  A frame that arrives while the connection's lock is held is not     *)
(* dropped: if the tasks terminate and the loop runs, every received frame  *)
(* is answered, unless the connection is closed: again and again the       *)
(* service reaches a state in which every frame received so far on an open  *)
(* connection has its response.                                             *)
(***************************************************************************)
C8_EveryRequestAnswered == []<>AllAnswered

\* a request that had to wait for the lock has its response, on an open
\* connection
C8_Witness ==
    \E c \in Connections :
        \E k \in Requests(c) :
            /\ ~closed[c]
            /\ co[c][k].waited
            /\ FramesFor(c, k) # {}

\* the client of connection d may send a frame now
MaySend(d) ==
    /\ ~closed[d]
    /\ TotalReceived < env.quota
    /\ Len(received[d]) < env.perconn[d]
    /\ d > 2 => received[d - 1] # <<>>

\* the connections with a task in the queue or in a worker
InPool == {t.c : t \in running} \cup {queue[i].c : i \in 1..Len(queue)}

\* a pending stage has exactly one task in the pool, and the loop can take a
\* frame of another connection while the pool works
C9_LoopFree ==
    /\ \A c \in Connections :
           \A k \in Requests(c) :
               (co[c][k].pc \in AwaitingPool /\ co[c][k].fut.st = "pending")
                   => Cardinality(TasksOf(c, k)) = 1
    /\ \A d \in Connections :
           (InPool \ {d} # {} /\ MaySend(d)) =>
               \A m \in env.inputs :
                   IF LockFree(d)
                   THEN ENABLED (/\ on_message(d, m)
                                 /\ co'[d][Len(received[d]) + 1].pc \in InFlight)
                   ELSE ENABLED on_message(d, m)

(***************************************************************************)
(* C9.  A stage's result comes only from a pool worker finishing that       *)
(* stage's task, never from the event loop; and while a connection's task   *)
(* is queued or executing, the loop can take a frame of any other open      *)
(* connection, whose run starts at once if its lock is free.                *)
(***************************************************************************)
C9_StagesRunInPool ==
    /\ []C9_LoopFree
    /\ [][\A c \in Connections :
              \A k \in 1..Len(co'[c]) :
                  LET before == IF k <= Len(co[c]) THEN co[c][k].fut ELSE NoFut
                  IN  (co'[c][k].fut # before /\ co'[c][k].fut.st \in {"ok", "exc"})
                          => \E t \in running \ running' : t.c = c /\ t.k = k]_vars

\* a worker executes the analyze stage of one connection while the loop has
\* just started the run of another connection's frame
C9_Witness ==
    \E c, d \in Connections :
        /\ c # d
        /\ \E t \in running : t.c = c /\ t.fn \in {"_detect", "_embed"}
        /\ \E k \in Requests(d) :
              /\ co[d][k].pc = "_decode_image"
              /\ \E i \in 1..Len(queue) : queue[i].c = d /\ queue[i].k = k

\* a frame whose payload decodes and in which the analyzer finds no face
ZeroFaces(m) ==
    /\ Len(m) >= HeaderLen
    /\ _decode(SubSeq(m, HeaderLen + 1, Len(m))).st = "ok"
    /\ extract_faces(_decode(SubSeq(m, HeaderLen + 1, Len(m))).val) = Ok(<<>>)

(***************************************************************************)
(* C10.  On /align a decodable image in which the analyzer finds no face    *)
(* ends the run with "No faces detected": no encode stage is submitted, no  *)
(* binary frame is written, the one answer is the text frame with that      *)
(* message, and a valid request after it is answered by its binary          *)
(* response.                                                                *)
(***************************************************************************)
C10_NoFacesDetected ==
    variant = "align" =>
        \A c \in Connections :
            \A k \in Requests(c) :
                ZeroFaces(received[c][k]) =>
                    /\ co[c][k].stages \in {<<>>, <<"_decode">>, <<"_decode", "_detect">>}
                    /\ co[c][k].pc # "_prepare_response"
                    /\ \A t \in TasksOf(c, k) : t.fn # "_prepare"
                    /\ \A i \in FramesFor(c, k) :
                          /\ outbox[c][i].kind = "text"
                          /\ outbox[c][i].text[2] = "No faces detected"
                    /\ Done(c, k) /\ ~closed[c] => Cardinality(FramesFor(c, k)) = 1
                    /\ \A j \in Requests(c) :
                          (j > k /\ Done(c, j) /\ ~closed[c]
                             /\ Outcome(received[c][j]).st = "ok")
                              => \E i \in FramesFor(c, j) : outbox[c][i].kind = "binary"

\* /align: a request without faces answered by the text frame, then a valid
\* request answered by a binary frame on the same open connection
C10_Witness ==
    /\ variant = "align"
    /\ \E c \in Connections :
          /\ ~closed[c]
          /\ Len(received[c]) = 2 /\ Len(outbox[c]) = 2
          /\ ZeroFaces(received[c][1])
          /\ co[c][1].stages = <<"_decode", "_detect">>
          /\ outbox[c][1].text = <<"Error: ", "No faces detected">>
          /\ outbox[c][2].kind = "binary"

\* a frame whose payload decodes and for which DeepFace.represent returns None
\* or an empty list
NullEmbedding(m) ==
    /\ Len(m) >= HeaderLen
    /\ _decode(SubSeq(m, HeaderLen + 1, Len(m))).st = "ok"
    /\ LET r == represent(_decode(SubSeq(m, HeaderLen + 1, Len(m))).val)
       IN  r.st = "ok" /\ (r.val.none \/ r.val.list = <<>>)

(***************************************************************************)
(* C11.  On /embed a decodable image for which the analyzer returns None    *)
(* or an empty list ends the run with the embedding-generation failure: no  *)
(* encode stage is submitted, no binary frame is written, and the one       *)
(* answer is the text frame "Failed to generate embedding".                 *)
(* The code does not do this: _embed indexes embedding[0] in the worker, so *)
(* the run ends with an IndexError or a TypeError and `if embedding is      *)
(* None` is never true.                                                     *)
(***************************************************************************)
C11_EmbeddingGenerationError ==
    variant = "embed" =>
        \A c \in Connections :
            \A k \in Requests(c) :
                NullEmbedding(received[c][k]) =>
                    /\ co[c][k].pc # "_prepare_response"
                    /\ \A t \in TasksOf(c, k) : t.fn # "_prepare"
                    /\ \A i \in FramesFor(c, k) :
                          /\ outbox[c][i].kind = "text"
                          /\ outbox[c][i].text[2] = "Failed to generate embedding"
                    /\ Done(c, k) /\ ~closed[c] => Cardinality(FramesFor(c, k)) = 1

\* the frame holds the correlation id: as the header of its bytes, or as a
\* part of its text
CarriesId(frame, id) ==
    \/ Prefix(frame.data, HeaderLen) = pack_Q(id)
    \/ \E i \in 1..Len(frame.text) : frame.text[i] = ToString(id)

\* the text frames written for requests whose header was decoded
LateErrors ==
    UNION {{<<c, i>> : i \in {j \in 1..Len(outbox[c]) :
                                /\ outbox[c][j].kind = "text"
                                /\ Len(received[c][outbox[c][j].req]) >= HeaderLen}}
           : c \in Connections}

\* C12 as claimed: an error response written after the header
\* was decoded carries the request's correlation id
C12_ErrorCarriesId ==
    \A ci \in LateErrors :
        LET frame == outbox[ci[1]][ci[2]]
        IN  CarriesId(frame, unpack_be(Prefix(received[ci[1]][frame.req], HeaderLen)))

(***************************************************************************)
(* C12 (amended).  An error response never carries the correlation id of    *)
(* the failed request, also when the failure comes after the header was     *)
(* decoded: it is a text frame made of the service's prefix and the         *)
(* exception's message, nothing else.                                       *)
(***************************************************************************)
C12_ErrorWithoutId ==
    \A ci \in LateErrors :
        LET frame == outbox[ci[1]][ci[2]]
            m == received[ci[1]][frame.req]
        IN  /\ frame.data = <<>>
            /\ frame.text = error_text(Outcome(m).exc)
            /\ ~CarriesId(frame, unpack_be(Prefix(m, HeaderLen)))

\* an open connection has the text frame of a request that failed after its
\* decode and analyze stages, the correlation id long decoded
C12_Witness ==
    \E ci \in LateErrors :
        LET c == ci[1]
            k == outbox[c][ci[2]].req
        IN  /\ ~closed[c]
            /\ Len(co[c][k].stages) >= 2
            /\ unpack_be(Prefix(received[c][k], HeaderLen)) > 0

RECURSIVE ShiftRight(_, _)
\* n >> (8 * j)
ShiftRight(n, j) == IF j = 0 THEN n ELSE ShiftRight(n \div 256, j - 1)

\* the w bytes of n, most significant first
BigEndian(n, w) == [i \in 1..w |-> ShiftRight(n, w - i) % 256]

RECURSIVE BigEndianValue(_)
\* the number whose bytes, most significant first, are b
BigEndianValue(b) ==
    IF b = <<>> THEN 0
    ELSE 256 * BigEndianValue(SubSeq(b, 1, Len(b) - 1)) + b[Len(b)]

RECURSIVE ReadFaces(_, _)
\* a client reading n faces off the bytes b: for each its 4-byte length, then
\* its bytes
ReadFaces(b, n) ==
    IF n = 0 THEN <<>>
    ELSE LET len == BigEndianValue(SubSeq(b, 1, 4))
         IN  <<SubSeq(b, 5, 4 + len)>>
             \o ReadFaces(SubSeq(b, 5 + len, Len(b)), n - 1)

\* a client reading an alignment response
ReadAlignment(b) ==
    LET n == BigEndianValue(SubSeq(b, 9, 12))
    IN  [correlation_id |-> BigEndianValue(SubSeq(b, 1, 8)),
         face_count |-> n,
         faces |-> ReadFaces(SubSeq(b, 13, Len(b)), n)]

\* the encoded faces of the image of frame m, in the analyzer's order
EncodedFaces(m) ==
    LET face_objs == extract_faces(_decode(SubSeq(m, 9, Len(m))).val).val
    IN  [i \in 1..Len(face_objs) |->
            _encode_face(_normalize_face(face_objs[i])).val]

\* the binary frames on /align, each with the frame it answers
AlignmentResponses ==
    IF variant # "align" THEN {}
    ELSE UNION {{[data |-> outbox[c][i].data, request |-> received[c][outbox[c][i].req]]
                   : i \in {j \in 1..Len(outbox[c]) : outbox[c][j].kind = "binary"}}
                : c \in Connections}

(***************************************************************************)
(* C13.  An alignment response is the correlation id in 8 bytes, big        *)
(* endian, the number of faces in 4 bytes, big endian, then for each face   *)
(* in the analyzer's order its length in 4 bytes, big endian, and its       *)
(* bytes; a client reading that layout gets the same id, the same count     *)
(* and the same buffers in the same order.                                  *)
(***************************************************************************)
C13_AlignmentLayout ==
    \A r \in AlignmentResponses :
        LET id == BigEndianValue(SubSeq(r.request, 1, 8))
            bufs == EncodedFaces(r.request)
        IN  /\ r.data = BigEndian(id, 8) \o BigEndian(Len(bufs), 4)
                        \o Concat([i \in 1..Len(bufs) |->
                                      BigEndian(Len(bufs[i]), 4) \o bufs[i]])
            /\ ReadAlignment(r.data) =
                   [correlation_id |-> id, face_count |-> Len(bufs), faces |-> bufs]

\* a response with two faces whose buffers differ in length, for an id of
\* several non-zero bytes
C13_Witness ==
    \E r \in AlignmentResponses :
        LET bufs == EncodedFaces(r.request)
        IN  /\ Len(bufs) = 2
            /\ Len(bufs[1]) # Len(bufs[2])
            /\ BigEndianValue(SubSeq(r.request, 1, 8)) > 65536

(***************************************************************************)
(* C14.  For a frame of at least 8 bytes the run works with the big-endian  *)
(* value of the first 8 bytes as its correlation id and hands exactly the   *)
(* remaining bytes to the decode stage; and a binary response to the frame  *)
(* begins with the frame's own 8 header bytes.                              *)
(***************************************************************************)
C14_HeaderRoundTrip ==
    \A c \in Connections :
        \A k \in Requests(c) :
            LET m == received[c][k]
                id == BigEndianValue(SubSeq(m, 1, 8))
            IN  Len(m) >= 8 =>
                    /\ co[c][k].pc \in AwaitingPool => co[c][k].message_id = id
                    /\ \A t \in TasksOf(c, k) :
                          /\ t.id = id
                          /\ t.fn = "_decode" => t.arg = SubSeq(m, 9, Len(m))
                    /\ \A i \in FramesFor(c, k) :
                          outbox[c][i].kind = "binary"
                              => SubSeq(outbox[c][i].data, 1, 8) = SubSeq(m, 1, 8)

\* /embed answered a frame whose id has several non-zero bytes with a
\* binary response that begins with those bytes
C14_Witness ==
    /\ variant = "embed"
    /\ \E c \in Connections :
          \E i \in 1..Len(outbox[c]) :
              /\ outbox[c][i].kind = "binary"
              /\ SubSeq(outbox[c][i].data, 1, 8) = <<0, 0, 0, 0, 1, 2, 3, 4>>
              /\ Len(received[c][outbox[c][i].req]) > 8

StageOrder == <<"_decode", AnalyzeFn, "_prepare">>

\* the stages request k of connection c has submitted so far, in a state
\* where the coroutine may not exist yet
StagesOf(cc, k) == IF k <= Len(cc) THEN cc[k].stages ELSE <<>>

\* at most one task of a run is in the pool, and it is the stage submitted
\* last; the stages were submitted in the order decode, analyze, encode
C16_OneStageAtATime ==
    \A c \in Connections :
        \A k \in Requests(c) :
            /\ co[c][k].stages = SubSeq(StageOrder, 1, Len(co[c][k].stages))
            /\ Cardinality(TasksOf(c, k)) <= 1
            /\ \A t \in TasksOf(c, k) :
                  /\ co[c][k].pc \in AwaitingPool
                  /\ co[c][k].fut.st = "pending"
                  /\ t.fn = co[c][k].stages[Len(co[c][k].stages)]

(***************************************************************************)
(* C16.  The three stages of a request never overlap and come one after     *)
(* the other: a step submits the analyze stage only when the decode task    *)
(* has returned a value, the encode stage only when the analyze task has    *)
(* returned a value that is not empty; and a run whose stage raised, or     *)
(* that is over, submits nothing more.                                      *)
(***************************************************************************)
C16_StagesSequential ==
    /\ []C16_OneStageAtATime
    /\ [][\A c \in Connections :
             \A k \in 1..Len(co'[c]) :
                 LET before == StagesOf(co[c], k)
                     after == co'[c][k].stages
                 IN  after # before =>
                         /\ Len(after) = Len(before) + 1
                         /\ Len(before) >= 1 =>
                               /\ co[c][k].pc \in AwaitingPool
                               /\ co[c][k].fut.st = "ok"
                               /\ TasksOf(c, k) = {}
                         /\ Len(before) = 2 => co[c][k].fut.val # <<>>]_vars

\* one connection: a request that went through the three stages and was
\* answered, and a request that stopped after its failed decode stage
C16_Witness ==
    \E c \in Connections :
        \E j, k \in Requests(c) :
            /\ Done(c, j) /\ co[c][j].stages = StageOrder
            /\ \E i \in FramesFor(c, j) : outbox[c][i].kind = "binary"
            /\ Done(c, k) /\ co[c][k].stages = <<"_decode">>
            /\ \E i \in FramesFor(c, k) : outbox[c][i].kind = "text"

\* the result of the n-th stage of the pipeline for frame m, the stages
\* before it having returned values
StageResult(m, n) ==
    LET d == _decode(SubSeq(m, HeaderLen + 1, Len(m)))
        a == IF variant = "align" THEN _detect(d.val) ELSE _embed(d.val)
        id == BigEndianValue(SubSeq(m, 1, HeaderLen))
    IN  CASE n = 1 -> d
          [] n = 2 -> a
          [] n = 3 -> IF variant = "align" THEN _prepare_align(id, a.val)
                      ELSE _prepare_embed(id, a.val[1])

\* every stage that is over has the result of its own request's data, and
\* the pool goes on: a queued task starts as soon as a worker is free
C17_OwnResults ==
    /\ \A c \in Connections :
           \A k \in Requests(c) :
               (co[c][k].pc \in AwaitingPool /\ co[c][k].fut.st \in {"ok", "exc"})
                   => co[c][k].fut = StageResult(received[c][k], Len(co[c][k].stages))
    /\ (queue # <<>> /\ Cardinality(running) < 4) => ENABLED worker_start

(***************************************************************************)
(* C17.  When a task raises in a worker, the exception goes to the future   *)
(* of the run that awaits that task and nowhere else: the worker is free    *)
(* again, the queue and the other executing tasks are untouched, no other   *)
(* coroutine changes; and every stage, before or after, ends with the       *)
(* result of its own request.                                               *)
(***************************************************************************)
C17_FailureIsolated ==
    /\ []C17_OwnResults
    /\ [][\A t \in running \ running' :
             RunTask(t).st = "exc" =>
                 /\ running' = running \ {t}
                 /\ queue' = queue
                 /\ co'[t.c][t.k] = [co[t.c][t.k] EXCEPT !.fut = RunTask(t)]
                 /\ \A c \in Connections :
                       \A k \in 1..Len(co[c]) :
                           <<c, k>> # <<t.c, t.k>> => co'[c][k] = co[c][k]
                 /\ outbox' = outbox /\ locked' = locked /\ closed' = closed]_vars

\* a task of connection c has just raised, the exception sits in the future
\* of c's run, while a worker executes a later stage of another connection
\* whose first stage returned its value
C17_Witness ==
    \E c, d \in Connections :
        /\ c # d
        /\ \E k \in Requests(c) :
              co[c][k].pc \in AwaitingPool /\ co[c][k].fut.st = "exc"
        /\ \E t \in running : t.c = d /\ t.fn # "_decode"

\* the analyzer calls that have not returned: the analyze tasks a worker is
\* executing
AnalyzerCalls == {t \in running : t.fn \in {"_detect", "_embed"}}

\* while an analyzer call of a connection has not returned, the lock of the
\* connection is held by its run, the request has no response, and no later
\* frame of the connection has got anywhere: each waits for the lock
C18_StalledWhileCalling ==
    \A t \in AnalyzerCalls :
        /\ locked[t.c]
        /\ co[t.c][t.k].pc = AnalyzeMethod /\ co[t.c][t.k].fut.st = "pending"
        /\ FramesFor(t.c, t.k) = {}
        /\ \A j \in Requests(t.c) :
              j > t.k => /\ co[t.c][j].pc = "lock_wait"
                         /\ co[t.c][j].stages = <<>>
                         /\ FramesFor(t.c, j) = {}

(***************************************************************************)
(* C18.  Nothing but its own return ends an analyzer call: no step takes    *)
(* the task from its worker except the worker finishing it.  And for as     *)
(* long as the call has not returned, the connection's lock stays held, the *)
(* request stays without a response, and no later frame of the connection   *)
(* is processed or answered.  A call that never returns stalls the          *)
(* connection for ever.                                                     *)
(***************************************************************************)
C18_NoTimeout ==
    /\ []C18_StalledWhileCalling
    /\ [][\A t \in AnalyzerCalls :
             /\ t \notin running' => co'[t.c][t.k].fut = RunTask(t)
             /\ t \in running' =>
                   /\ co'[t.c][t.k] = co[t.c][t.k]
                   /\ locked'[t.c]
                   /\ outbox'[t.c] = outbox[t.c]]_vars

\* an analyzer call is executing, a later frame of the same connection has
\* arrived and waits for the lock, and nothing was written
C18_Witness ==
    \E t \in AnalyzerCalls :
        /\ Len(received[t.c]) > t.k
        /\ co[t.c][t.k + 1].pc = "lock_wait"
        /\ outbox[t.c] = <<>>

\* the runs that end in the step: coroutines that return from on_message
EndingRuns ==
    {ck \in Coroutines : co[ck[1]][ck[2]].pc # "done" /\ co'[ck[1]][ck[2]].pc = "done"}

(***************************************************************************)
(* C19.  The lock of a connection is held only while a run of the           *)
(* connection is in progress, and the step in which a run ends leaves it    *)
(* released, however the run ends: after the binary write, after the text   *)
(* write of an error, or with the exception of a write on a closed          *)
(* connection.                                                              *)
(***************************************************************************)
C19_LockReleased ==
    /\ [](\A c \in Connections : locked[c] => Cardinality(RunsInFlight(c)) = 1)
    /\ [][\A ck \in EndingRuns : ~locked'[ck[1]]]_vars

\* a connection whose three runs ended in the three ways: answered by a
\* binary frame, answered by a text frame, and, the connection closed by
\* then, with both writes failing after the three stages; the lock is free
C19_Witness ==
    \E c \in Connections :
        /\ closed[c] /\ ~locked[c]
        /\ Len(received[c]) = 3
        /\ \A k \in 1..3 : Done(c, k)
        /\ Len(outbox[c]) = 2
        /\ {outbox[c][1].kind, outbox[c][2].kind} = {"binary", "text"}
        /\ \E k \in 1..3 : FramesFor(c, k) = {} /\ Len(co[c][k].stages) = 3

\* the places of connection c's tasks in the queue
QueuedOf(c) == {i \in 1..Len(queue) : queue[i].c = c}

\* the connections with a run between lock acquisition and release
ConnectionsInProgress == {c \in Connections : RunsInFlight(c) # {}}

(***************************************************************************)
(* C20.  A connection has at most one task in the pool, queued or           *)
(* executing, however many frames it has sent; so the queue is never        *)
(* longer than the number of connections with a run in progress.            *)
(***************************************************************************)
C20_OneTaskPerConnection ==
    /\ \A c \in Connections :
           Cardinality(QueuedOf(c)) + Cardinality({t \in running : t.c = c}) <= 1
    /\ Len(queue) <= Cardinality(ConnectionsInProgress)
    /\ Len(queue) + Cardinality(running) <= Cardinality(ConnectionsInProgress)

\* every connection has its task in the queue, no worker has started yet,
\* and one connection has sent a second frame, which waits for the lock
C20_Witness ==
    /\ Len(queue) = Cardinality(Connections)
    /\ Cardinality(Connections) > max_workers
    /\ \E c \in Connections :
          /\ Len(received[c]) = 2
          /\ co[c][2].pc = "lock_wait"

====
